---- MODULE Spec2Model ----
(***************************************************************************)
(* Restore engine of restore-instance-data (processor.py): the stages of   *)
(* process(), the per-kind restorers, the name -> id caches and the        *)
(* retrying session, run against a target instance that answers each      *)
(* request either as a healthy instance would or with a fault.             *)
(***************************************************************************)
EXTENDS Integers, Sequences, FiniteSets, TLC

VARIABLES
    objects_to_process,  \* argument of process(): the kinds to restore
    missing,             \* the capture files that are not on disk
    groups_file,         \* the records of the Groups capture file
    pc,                  \* position of the single thread of the run
    idx,                 \* index of the next record of the file being read
    sub,                 \* index of the next sub-record (device, shift, member)
    cur,                 \* locals of the record in progress
    _site_dict,          \* name -> site           (processor._site_dict)
    _user_dict,          \* targetName -> id|None  (processor._user_dict)
    _supervisor_dict,    \* new id -> supervisors  (processor._supervisor_dict)
    _group_dict,         \* targetName -> id|None  (processor._group_dict)
    user_dict,           \* copy of _user_dict walked by the supervisor pass
    counts,              \* counters of the stage in progress
    error,               \* the uncaught exception that ended the run
    xm,                  \* what the target instance holds
    freshIds,            \* the target assigns its own identifiers on create
    reports,             \* the summary lines logged by the finished stages
    calls,               \* every request issued so far, with its answer
    faults               \* number of faulty answers given so far

vars == << objects_to_process, missing, groups_file, pc, idx, sub, cur, _site_dict, _user_dict,
           _supervisor_dict, _group_dict, user_dict, counts, error, xm,
           freshIds, reports, calls, faults >>

-----------------------------------------------------------------------------
(* Bounds of the model *)

\* Number of faulty answers (transport exception, 5xx) the target gives in a run
MaxFaults == 1

\* Number of transient answers in a row the retrying session is given
MaxRetry == 2

-----------------------------------------------------------------------------
(* Values *)

\* Python's None (a falsy value distinct from every identifier)
None == 0

\* An answer choice: the target answers as a healthy instance would
OK == 0

\* An answer choice: requests raises RequestException instead of answering
EXC == 1

\* The identifier a target that assigns its own gives to the entity whose
\* captured identifier is id
NewId(id) == id + 10

\* The name the target gives to the Shift it creates with every new Group
DefaultShiftName == "Default Shift"

-----------------------------------------------------------------------------
(* The capture files: one record per line *)

SitesFile ==
    << [name |-> "S1", id |-> 1],
       [name |-> "S2", id |-> 2],
       [name |-> "S3", id |-> 3] >>

\* (the supervisor X of B is a User of the source that is not in the file)
UsersFile ==
    << [targetName |-> "B", id |-> 2, site |-> "S1",
        roles |-> <<"Standard User">>, supervisors |-> <<"A", "X">>,
        devices |-> <<"b1", "b2">>],
       [targetName |-> "A", id |-> 1, site |-> "S2",
        roles |-> <<"Standard User">>, supervisors |-> <<>>,
        devices |-> <<"a1">>],
       [targetName |-> "Z", id |-> 3, site |-> "S3",
        roles |-> <<"Company Admin">>, supervisors |-> <<>>,
        devices |-> <<>>] >>

\* A Groups file in which every Group owns a Shift
GroupsFileWithShifts ==
    << [targetName |-> "G1", id |-> 1, site |-> "S1",
        supervisors |-> <<"A">>,
        shifts |-> << [name |-> "Day",
                       members |-> << [recipientType |-> "PERSON", targetName |-> "B"],
                                      [recipientType |-> "GROUP", targetName |-> "G2"] >>] >>],
       [targetName |-> "G2", id |-> 2, site |-> "S1",
        supervisors |-> <<>>,
        shifts |-> << [name |-> DefaultShiftName, members |-> <<>>] >>] >>

\* A Groups file whose last Group owns no Shift
GroupsFileNoShifts ==
    << GroupsFileWithShifts[1],
       [targetName |-> "G2", id |-> 2, site |-> "S1",
        supervisors |-> <<>>,
        shifts |-> <<>>] >>

\* The records of the Groups file of the run
GroupsFile == groups_file

-----------------------------------------------------------------------------
(* Python dicts: insertion-ordered sequences of key/value pairs *)

Has(d, k) == \E i \in 1..Len(d) : d[i].k = k

Get(d, k) == d[CHOOSE i \in 1..Len(d) : d[i].k = k].v

Put(d, k, v) ==
    IF Has(d, k)
    THEN [i \in 1..Len(d) |-> IF d[i].k = k THEN [k |-> k, v |-> v] ELSE d[i]]
    ELSE Append(d, [k |-> k, v |-> v])

Keys(d) == {d[i].k : i \in 1..Len(d)}

-----------------------------------------------------------------------------
(* The target instance *)

\* The identifier the target gives to an entity created from a payload
AssignId(id) == IF freshIds THEN NewId(id) ELSE id

\* A request and its answer, as logged in calls
\* (ref: the id, owner or group of the request; site, sups: those of the payload)
Call(op, kind, name, ref, site, sups, status) ==
    [op |-> op, kind |-> kind, name |-> name, ref |-> ref, site |-> site,
     sups |-> sups, status |-> status]

\* The requests cs, marked with the stage and the record they are issued for
By(stage, rec, cs) ==
    [i \in 1..Len(cs) |->
        [op |-> cs[i].op, kind |-> cs[i].kind, name |-> cs[i].name,
         ref |-> cs[i].ref, site |-> cs[i].site, sups |-> cs[i].sups,
         status |-> cs[i].status, stage |-> stage, rec |-> rec]]

\* The answers the target may give to one request: the healthy one, or a fault
\* (a transport exception, a server error 503) while the run's budget of
\* faults lasts
Answers(used) == {OK} \cup (IF faults + used < MaxFaults THEN {EXC, 503} ELSE {})

Faulty(r) == IF r = OK THEN 0 ELSE 1

\* POST of an entity keyed by name: an update when the payload carries the
\* identifier of the entity of that name, a duplicate-name conflict when it
\* carries another, a create when the name is new
HealthyPost(held, name, id) ==
    IF name \in DOMAIN held
    THEN IF held[name] = id THEN 200 ELSE 409
    ELSE 201

PostResult(held, name, id) ==
    IF name \in DOMAIN held
    THEN held
    ELSE [n \in DOMAIN held \cup {name} |-> IF n = name THEN AssignId(id) ELSE held[n]]

\* GET of an entity by name
HealthyGet(held, name) == IF name \in DOMAIN held THEN 200 ELSE 404

-----------------------------------------------------------------------------
(* Sites *)

\* _get_site(name): the cached site, else a lookup by name; a site that is
\* not found is not cached.  val is site['id'] of the returned site.
_get_site(dict, held, name, r) ==
    IF Has(dict, name)
    THEN [val |-> Get(dict, name), dict |-> dict, calls |-> <<>>,
          exc |-> FALSE, used |-> FALSE]
    ELSE LET st == IF r = OK THEN HealthyGet(held, name) ELSE r
             c  == Call("GET", "site", name, None, None, <<>>, st)
         IN  IF r = EXC
             THEN [val |-> None, dict |-> dict, calls |-> <<c>>,
                   exc |-> TRUE, used |-> TRUE]
             ELSE IF st # 200
             THEN [val |-> None, dict |-> dict, calls |-> <<c>>,
                   exc |-> FALSE, used |-> TRUE]
             ELSE [val |-> held[name], dict |-> Put(dict, name, held[name]),
                   calls |-> <<c>>, exc |-> FALSE, used |-> TRUE]

\* RetryId with the assignment of line 95 left out
RetryIdKeepsCaptured(rec, existing_site) == rec.id

\* The identifier _add_site puts in the payload of its second request
RetryId(rec, existing_site) ==
    IF existing_site # None THEN existing_site ELSE rec.id

\* _add_site(site_json): r1, r2, r3 are the answers to the create, to the
\* lookup after a 409 and to the second create.  site_obj is None or the id
\* of the returned site; exc tells that the lookup raised.
_add_site(dict, held, rec, r1, r2, r3) ==
    LET st1   == IF r1 = OK THEN HealthyPost(held, rec.name, rec.id) ELSE r1
        c1    == Call("POST", "site", rec.name, rec.id, None, <<>>, st1)
        held1 == IF st1 = 201 THEN PostResult(held, rec.name, rec.id) ELSE held
        fail1 == [site_obj |-> None, dict |-> dict, held |-> held1,
                  calls |-> <<c1>>, exc |-> FALSE, used2 |-> FALSE, used3 |-> FALSE]
    IN  IF r1 = EXC THEN fail1
        ELSE IF st1 = 409
        THEN LET g     == _get_site(dict, held1, rec.name, r2)
                 id2   == RetryId(rec, g.val)
                 st3   == IF r3 = OK THEN HealthyPost(held1, rec.name, id2) ELSE r3
                 c3    == Call("POST", "site", rec.name, id2, None, <<>>, st3)
                 held3 == IF st3 = 201 THEN PostResult(held1, rec.name, id2) ELSE held1
                 out   == [site_obj |-> None, dict |-> g.dict, held |-> held3,
                           calls |-> <<c1>> \o g.calls \o <<c3>>, exc |-> FALSE,
                           used2 |-> g.used, used3 |-> TRUE]
             IN  IF g.exc
                 THEN [out EXCEPT !.held = held1, !.calls = <<c1>> \o g.calls,
                                  !.exc = TRUE, !.used3 = FALSE]
                 ELSE IF r3 = EXC \/ st3 \notin {200, 201} THEN out
                 ELSE [out EXCEPT !.site_obj = held3[rec.name]]
        ELSE IF st1 \notin {200, 201} THEN fail1
        ELSE [fail1 EXCEPT !.site_obj = held1[rec.name]]

\* Blocks with the Groups block moved before the Users block
BlocksGroupsFirst == <<"sites", "groups", "users">>

\* The blocks of process(), in the order of its statements (lines 918-932)
Blocks == <<"sites", "users", "groups">>

\* include_devices with the argument of line 924 always true
include_devices_always == TRUE

\* The argument of _process_users (line 924)
include_devices == "devices" \in objects_to_process

\* include_shifts with the argument of line 930 always true
include_shifts_always == TRUE

\* The argument of _process_groups (line 930)
include_shifts == "shifts" \in objects_to_process

\* The stage a block of process() runs, "" when neither of its tests holds
BlockEntry(b) ==
    CASE b = "sites" ->
           IF "sites" \in objects_to_process THEN "sites" ELSE ""
      [] b = "users" ->
           IF "users" \in objects_to_process THEN "users"
           ELSE IF "devices" \in objects_to_process THEN "devices"
           ELSE ""
      [] b = "groups" ->
           IF "groups" \in objects_to_process THEN "groups"
           ELSE IF "shifts" \in objects_to_process THEN "shifts"
           ELSE ""

\* The first stage run by the blocks of process() from the i-th on
RECURSIVE FromBlock(_)
FromBlock(i) ==
    IF i > Len(Blocks) THEN "done"
    ELSE IF BlockEntry(Blocks[i]) # "" THEN BlockEntry(Blocks[i])
    ELSE FromBlock(i + 1)

\* Where process() goes when the stage of block b returns
AfterBlock(b) == FromBlock((CHOOSE i \in 1..Len(Blocks) : Blocks[i] = b) + 1)

\* Where process() goes after the Sites stage (processor.py 922-926)
AfterSites == AfterBlock("sites")

\* Where process() goes after the Users or the Devices stage (928-932)
AfterUsers == AfterBlock("users")

\* Where process() goes after the Groups or the Shifts stage
AfterGroups == AfterBlock("groups")

NoCounts == [lines |-> 0, ok |-> 0, max |-> 0, upd |-> 0]

NoError == [type |-> "", line |-> 0]

\* The run ends on an exception no handler catches, raised at a line of
\* processor.py
Raise(e, line) == pc' = "crashed" /\ error' = [type |-> e, line |-> line]

\* The capture file a stage reads (config.sites_filename, users_filename,
\* groups_filename)
FileOf(stage) ==
    CASE stage = "sites" -> "sites"
      [] stage \in {"users", "devices"} -> "users"
      [] stage \in {"groups", "shifts", "members"} -> "groups"

\* The line of the "with open(...)" statement of a stage
OpenLine(stage) ==
    CASE stage = "sites" -> 129
      [] stage = "users" -> 410
      [] stage = "devices" -> 447
      [] stage = "groups" -> 880
      [] stage = "shifts" -> 821
      [] stage = "members" -> 843

\* open() of the file of a stage succeeds
Opens(stage) == FileOf(stage) \notin missing

\* "with open(config.<kind>_filename)" of a stage whose file is not on disk:
\* FileNotFoundError, which no caller catches
open_raises ==
    /\ pc \in {"sites", "users", "devices", "groups", "shifts", "members"}
    /\ ~Opens(pc)
    /\ Raise("FileNotFoundError", OpenLine(pc))
    /\ UNCHANGED << objects_to_process, missing, groups_file, idx, sub, cur, _site_dict,
                    _user_dict, _supervisor_dict, _group_dict, user_dict, counts,
                    xm, freshIds, reports, calls, faults >>

\* process(): entry, up to the first stage
process ==
    /\ pc = "process"
    /\ pc' = FromBlock(1)
    /\ UNCHANGED << objects_to_process, missing, groups_file, idx, sub, cur, _site_dict, _user_dict,
                    _supervisor_dict, _group_dict, user_dict, counts, error, xm,
                    freshIds, reports, calls, faults >>

\* num_sites_add for a line 140 that adds nothing
num_sites_add_nothing(site_obj) == 0

\* _process_sites, line 140: "num_sites += 0 if site_obj == None else 1"
num_sites_add(site_obj) == IF site_obj = None THEN 0 ELSE 1

\* _process_sites(): one record of the Sites file, handed to _add_site
_process_sites ==
    /\ pc = "sites"
    /\ Opens("sites")
    /\ idx <= Len(SitesFile)
    /\ \E r1 \in Answers(0) : \E r2 \in Answers(Faulty(r1)) :
       \E r3 \in Answers(Faulty(r1) + Faulty(r2)) :
         LET rec == SitesFile[idx]
             res == _add_site(_site_dict, xm.sites, rec, r1, r2, r3)
         IN  /\ (~res.used2) => r2 = OK
             /\ (~res.used3) => r3 = OK
             /\ faults' = faults + Faulty(r1) + Faulty(r2) + Faulty(r3)
             /\ calls' = calls \o By("sites", rec.name, res.calls)
             /\ xm' = [xm EXCEPT !.sites = res.held]
             /\ IF res.exc
                THEN /\ Raise("RequestException", 164)
                     /\ _site_dict' = res.dict
                     /\ counts' = [counts EXCEPT !.lines = @ + 1]
                     /\ UNCHANGED idx
                ELSE IF res.site_obj = None
                THEN \* line 139: site_obj['name'] of None
                     /\ Raise("TypeError", 139)
                     /\ _site_dict' = res.dict
                     /\ counts' = [counts EXCEPT !.lines = @ + 1]
                     /\ UNCHANGED idx
                ELSE /\ _site_dict' = Put(res.dict, rec.name, res.site_obj)
                     /\ counts' = [counts EXCEPT !.lines = @ + 1,
                                                 !.ok = @ + num_sites_add(res.site_obj)]
                     /\ idx' = idx + 1
                     /\ UNCHANGED << pc, error >>
    /\ UNCHANGED << objects_to_process, missing, groups_file, sub, cur, _user_dict, _supervisor_dict,
                    _group_dict, user_dict, freshIds, reports >>

\* _process_sites(): end of the file, the summary line, back in process()
_process_sites_end ==
    /\ pc = "sites"
    /\ Opens("sites")
    /\ idx > Len(SitesFile)
    /\ reports' = Append(reports, [stage |-> "Sites", ok |-> counts.ok,
                                   of |-> counts.lines])
    /\ pc' = AfterSites
    /\ idx' = 1
    /\ counts' = NoCounts
    /\ UNCHANGED << objects_to_process, missing, groups_file, sub, cur, _site_dict, _user_dict,
                    _supervisor_dict, _group_dict, user_dict, error, xm,
                    freshIds, calls, faults >>

-----------------------------------------------------------------------------
(* Users and Devices *)

\* Python's truth value of an identifier or None
Truthy(v) == v # None

\* The locals kept between two steps of a record: those of _add_devices
\* (user_id, devices, dev_count), of _add_shifts (group_id, shifts,
\* shift_count, had_new_default_shift, the counter of the retrying session)
\* and of _add_shift_members (members, mem_count)
NoCur == [user_id |-> None, target_name |-> "", devices |-> <<>>,
          dev_count |-> 0, ret |-> "", group_id |-> None, shifts |-> <<>>,
          shift_count |-> 0, had_new_default_shift |-> FALSE, counter |-> 0,
          delay |-> 0, members |-> <<>>, mem_count |-> 0]

\* _get_user(targetName): the cached id (None included), else a lookup by
\* name; every answer other than 200 is cached as None.
_get_user(dict, held, name, r) ==
    IF Has(dict, name)
    THEN [val |-> Get(dict, name), dict |-> dict, calls |-> <<>>,
          exc |-> FALSE, used |-> FALSE]
    ELSE LET st == IF r = OK THEN HealthyGet(held, name) ELSE r
             c  == Call("GET", "user", name, None, None, <<>>, st)
         IN  IF r = EXC
             THEN [val |-> None, dict |-> dict, calls |-> <<c>>,
                   exc |-> TRUE, used |-> TRUE]
             ELSE IF st # 200
             THEN [val |-> None, dict |-> Put(dict, name, None), calls |-> <<c>>,
                   exc |-> FALSE, used |-> TRUE]
             ELSE [val |-> held[name], dict |-> Put(dict, name, held[name]),
                   calls |-> <<c>>, exc |-> FALSE, used |-> TRUE]

\* NoSite for a line 247 that lets a missing Site through
NoSiteIgnored(site) == FALSE

\* _add_user, line 247: site['id'] raises TypeError when _get_site gave None
NoSite(site) == site = None

IsCompAdmin(rec) == \E i \in 1..Len(rec.roles) : rec.roles[i] = "Company Admin"

\* What _add_user hands back to _process_users (line 306): the request
\* payload user_obj, whose 'id' is the identifier of the capture file
ReturnedUserId(rec, new_id) == rec.id

\* DeviceOwner for a line 299 that passes the identifier of the capture file
DeviceOwnerCaptured(rec, new_id) == rec.id

\* _add_user, line 299: the owner handed to _add_devices is new_user_obj['id'],
\* the identifier of the response to the create
DeviceOwner(rec, new_id) == new_id

\* _add_user(include_devices, user_json), lines 240-294: the Site of the User,
\* the Company Admin test, the create, the two caches.  r1 answers the lookup
\* of the Site, r2 the create.
_add_user ==
    /\ pc = "users"
    /\ Opens("users")
    /\ idx <= Len(UsersFile)
    /\ \E r1 \in Answers(0) : \E r2 \in Answers(Faulty(r1)) :
         LET rec   == UsersFile[idx]
             g     == _get_site(_site_dict, xm.sites, rec.site, r1)
             st    == IF r2 = OK THEN HealthyPost(xm.users, rec.targetName, rec.id) ELSE r2
             c     == Call("POST", "user", rec.targetName, rec.id, g.val, <<>>, st)
             held  == IF st = 201 THEN PostResult(xm.users, rec.targetName, rec.id)
                      ELSE xm.users
             posts == ~g.exc /\ ~NoSite(g.val) /\ ~IsCompAdmin(rec)
             devs  == IF include_devices THEN rec.devices ELSE <<>>
         IN  /\ (~g.used) => r1 = OK
             /\ (~posts) => r2 = OK
             /\ faults' = faults + Faulty(r1) + Faulty(r2)
             /\ _site_dict' = g.dict
             /\ counts' = [counts EXCEPT !.lines = @ + 1]
             /\ IF g.exc
                THEN /\ Raise("RequestException", 164)
                     /\ calls' = calls \o By("users", rec.targetName, g.calls)
                     /\ UNCHANGED << idx, sub, cur, _user_dict, _supervisor_dict, xm >>
                ELSE IF NoSite(g.val)
                THEN \* line 247: site['id'] of None
                     /\ Raise("TypeError", 247)
                     /\ calls' = calls \o By("users", rec.targetName, g.calls)
                     /\ UNCHANGED << idx, sub, cur, _user_dict, _supervisor_dict, xm >>
                ELSE IF IsCompAdmin(rec)
                THEN /\ calls' = calls \o By("users", rec.targetName, g.calls)
                     /\ idx' = idx + 1
                     /\ UNCHANGED << pc, error, sub, cur, _user_dict,
                                     _supervisor_dict, xm >>
                ELSE IF r2 = EXC \/ st \notin {200, 201}
                THEN /\ calls' = calls \o By("users", rec.targetName, g.calls \o <<c>>)
                     /\ idx' = idx + 1
                     /\ UNCHANGED << pc, error, sub, cur, _user_dict,
                                     _supervisor_dict, xm >>
                ELSE /\ calls' = calls \o By("users", rec.targetName, g.calls \o <<c>>)
                     /\ xm' = [xm EXCEPT !.users = held]
                     /\ _user_dict' = Put(_user_dict, rec.targetName, held[rec.targetName])
                     /\ _supervisor_dict' =
                            Put(_supervisor_dict, held[rec.targetName], rec.supervisors)
                     /\ cur' = [NoCur EXCEPT !.user_id =
                                                 DeviceOwner(rec, held[rec.targetName]),
                                             !.target_name = rec.targetName,
                                             !.devices = devs,
                                             !.ret = "user_return"]
                     /\ sub' = 1
                     /\ pc' = IF include_devices
                              THEN "add_devices" ELSE "user_return"
                     /\ UNCHANGED << idx, error >>
    /\ UNCHANGED << objects_to_process, missing, groups_file, _group_dict, user_dict, freshIds, reports >>

\* POST of a Device: its owner must be a User of the target, its name new
HealthyPostDevice(owner, name) ==
    IF \A n \in DOMAIN xm.users : xm.users[n] # owner THEN 400
    ELSE IF <<owner, name>> \in xm.devices THEN 409
    ELSE 201

\* NextDevice for a loop that a failed create ends
NextDeviceStopsOnFailure(good, i) == IF good THEN i + 1 ELSE Len(cur.devices) + 1

\* _add_devices, lines 211, 216 and 221: "continue" after a create that
\* raised or was not answered 2xx, the next turn of the loop after one that was
NextDevice(good, i) == i + 1

\* _add_devices(user_id, target_name, devices): one Device of the list
_add_devices ==
    /\ pc = "add_devices"
    /\ sub <= Len(cur.devices)
    /\ \E r \in Answers(0) :
         LET name == cur.devices[sub]
             st   == IF r = OK THEN HealthyPostDevice(cur.user_id, name) ELSE r
             good == r # EXC /\ st \in {200, 201}
         IN  /\ faults' = faults + Faulty(r)
             /\ calls' = calls \o By(IF cur.ret = "devices" THEN "devices" ELSE "users",
                                     cur.target_name,
                                     <<Call("POST", "device", name, cur.user_id, None,
                                            <<>>, st)>>)
             /\ xm' = IF st = 201
                      THEN [xm EXCEPT !.devices = @ \cup {<<cur.user_id, name>>}]
                      ELSE xm
             /\ cur' = [cur EXCEPT !.dev_count = IF good THEN @ + 1 ELSE @]
             /\ sub' = NextDevice(good, sub)
    /\ UNCHANGED << objects_to_process, missing, groups_file, pc, idx, _site_dict, _user_dict,
                    _supervisor_dict, _group_dict, user_dict, counts, error,
                    freshIds, reports >>

\* _add_devices: end of the list, dev_count handed back to the caller
\* (_add_user line 299, or _process_devices line 464, which adds it up)
_add_devices_end ==
    /\ pc = "add_devices"
    /\ sub > Len(cur.devices)
    /\ pc' = cur.ret
    /\ IF cur.ret = "devices"
       THEN /\ counts' = [counts EXCEPT !.ok = @ + cur.dev_count]
            /\ idx' = idx + 1
            /\ cur' = NoCur
       ELSE UNCHANGED << counts, idx, cur >>
    /\ UNCHANGED << objects_to_process, missing, groups_file, sub, _site_dict, _user_dict,
                    _supervisor_dict, _group_dict, user_dict, error, xm,
                    freshIds, reports, calls, faults >>

\* _add_user, lines 301-306, and _process_users, lines 420-422: the returned
\* user_obj is cached under its targetName and counted
_add_user_return ==
    /\ pc = "user_return"
    /\ _user_dict' = Put(_user_dict, cur.target_name,
                         ReturnedUserId(UsersFile[idx], cur.user_id))
    /\ counts' = [counts EXCEPT !.ok = @ + 1]
    /\ idx' = idx + 1
    /\ cur' = NoCur
    /\ pc' = "users"
    /\ UNCHANGED << objects_to_process, missing, groups_file, sub, _site_dict, _supervisor_dict,
                    _group_dict, user_dict, error, xm, freshIds, reports, calls,
                    faults >>

\* _process_users, lines 424-428: the summary line and the copy of the cache
\* the supervisor pass walks
_process_users_end ==
    /\ pc = "users"
    /\ Opens("users")
    /\ idx > Len(UsersFile)
    /\ reports' = Append(reports, [stage |-> "Users", ok |-> counts.ok,
                                   of |-> counts.lines])
    /\ user_dict' = _user_dict
    /\ counts' = NoCounts
    /\ idx' = 1
    /\ pc' = "supervisors"
    /\ UNCHANGED << objects_to_process, missing, groups_file, sub, cur, _site_dict, _user_dict,
                    _supervisor_dict, _group_dict, error, xm, freshIds, calls,
                    faults >>

\* The answers a handler that issues several lookups is given, one per name
AllAnswers == {OK, EXC, 503}

RECURSIVE SumFaulty(_, _)
SumFaulty(rs, i) == IF i > Len(rs) THEN 0 ELSE Faulty(rs[i]) + SumFaulty(rs, i + 1)

\* The loop "for targetName in names: super_id = _get_user(targetName); if
\* super_id: supervisors.append(super_id)" from name i on; rs[i] answers the
\* lookup of names[i]; the loop ends early when a lookup raises
RECURSIVE ResolveUsers(_, _, _, _, _)
ResolveUsers(held, names, rs, i, acc) ==
    IF i > Len(names) \/ acc.exc THEN acc
    ELSE LET g == _get_user(acc.dict, held, names[i], rs[i])
         IN  ResolveUsers(held, names, rs, i + 1,
                 [ids   |-> IF Truthy(g.val) THEN Append(acc.ids, g.val) ELSE acc.ids,
                  dict  |-> g.dict,
                  calls |-> acc.calls \o g.calls,
                  exc   |-> g.exc,
                  used  |-> IF g.used THEN acc.used \cup {i} ELSE acc.used])

NoneResolved(dict) == [ids |-> <<>>, dict |-> dict, calls |-> <<>>, exc |-> FALSE,
                       used |-> {}]

\* POST /people that carries an id and no other field of a User but its
\* targetName and supervisors: an update of the User of that id
HealthyUpdateUser(name, id) ==
    IF name \in DOMAIN xm.users
    THEN IF xm.users[name] = id THEN 200 ELSE 409
    ELSE 400

\* The test "Is there anything to do" of _add_user_supervisors (line 352)
HasSupervisors(user_id) ==
    Has(_supervisor_dict, user_id) /\ Len(Get(_supervisor_dict, user_id)) > 0

\* _add_user_supervisors(user_id, target_name) for one entry of user_dict:
\* rs answer the lookups of the supervisors, r the update
_add_user_supervisors ==
    /\ pc = "supervisors"
    /\ idx <= Len(user_dict)
    /\ LET target_name == user_dict[idx].k
           user_id     == user_dict[idx].v
           names       == IF HasSupervisors(user_id)
                          THEN Get(_supervisor_dict, user_id) ELSE <<>>
       IN  \E rs \in [1..Len(names) -> AllAnswers] : \E r \in AllAnswers :
             LET got   == ResolveUsers(xm.users, names, rs, 1, NoneResolved(_user_dict))
                 posts == ~got.exc /\ Len(got.ids) > 0
                 st    == IF r = OK THEN HealthyUpdateUser(target_name, user_id) ELSE r
                 c     == Call("POST", "user", target_name, user_id, None, got.ids, st)
             IN  /\ faults + SumFaulty(rs, 1) + Faulty(r) <= MaxFaults
                 /\ \A i \in 1..Len(names) : i \notin got.used => rs[i] = OK
                 /\ (~posts) => r = OK
                 /\ faults' = faults + SumFaulty(rs, 1) + Faulty(r)
                 /\ _user_dict' = got.dict
                 /\ calls' = calls \o By("supervisors", target_name,
                                         got.calls \o (IF posts THEN <<c>> ELSE <<>>))
                 /\ IF got.exc
                    THEN Raise("RequestException", 329) /\ UNCHANGED << idx, counts >>
                    ELSE /\ idx' = idx + 1
                         /\ counts' = IF posts /\ r # EXC /\ st \in {200, 201}
                                      THEN [counts EXCEPT !.ok = @ + 1] ELSE counts
                         /\ UNCHANGED << pc, error >>
    /\ UNCHANGED << objects_to_process, missing, groups_file, sub, cur, _site_dict, _supervisor_dict,
                    _group_dict, user_dict, xm, freshIds, reports >>

\* _process_users, line 431: the summary line of the supervisor pass, back in
\* process()
_process_users_supervisors_end ==
    /\ pc = "supervisors"
    /\ idx > Len(user_dict)
    /\ reports' = Append(reports, [stage |-> "Supervisors", ok |-> counts.ok,
                                   of |-> Len(_user_dict)])
    /\ counts' = NoCounts
    /\ idx' = 1
    /\ pc' = AfterUsers
    /\ UNCHANGED << objects_to_process, missing, groups_file, sub, cur, _site_dict, _user_dict,
                    _supervisor_dict, _group_dict, user_dict, error, xm,
                    freshIds, calls, faults >>

\* _process_devices(): one record of the Users file; the owner is looked up
\* by name and its Devices are handed to _add_devices
_process_devices ==
    /\ pc = "devices"
    /\ Opens("devices")
    /\ idx <= Len(UsersFile)
    /\ \E r \in Answers(0) :
         LET rec == UsersFile[idx]
             g   == _get_user(_user_dict, xm.users, rec.targetName, r)
         IN  /\ (~g.used) => r = OK
             /\ faults' = faults + Faulty(r)
             /\ calls' = calls \o By("devices", rec.targetName, g.calls)
             /\ _user_dict' = g.dict
             /\ counts' = [counts EXCEPT !.lines = @ + 1, !.max = @ + Len(rec.devices)]
             /\ IF g.exc
                THEN Raise("RequestException", 329) /\ UNCHANGED << sub, cur >>
                ELSE /\ cur' = [NoCur EXCEPT !.user_id = g.val,
                                             !.target_name = rec.targetName,
                                             !.devices = rec.devices,
                                             !.ret = "devices"]
                     /\ sub' = 1
                     /\ pc' = "add_devices"
                     /\ UNCHANGED error
    /\ UNCHANGED << objects_to_process, missing, groups_file, idx, _site_dict, _supervisor_dict,
                    _group_dict, user_dict, xm, freshIds, reports >>

\* _process_devices(): end of the file, the summary line, back in process()
_process_devices_end ==
    /\ pc = "devices"
    /\ Opens("devices")
    /\ idx > Len(UsersFile)
    /\ reports' = Append(reports, [stage |-> "Devices", ok |-> counts.ok,
                                   of |-> counts.max])
    /\ counts' = NoCounts
    /\ idx' = 1
    /\ pc' = AfterUsers
    /\ UNCHANGED << objects_to_process, missing, groups_file, sub, cur, _site_dict, _user_dict,
                    _supervisor_dict, _group_dict, user_dict, error, xm,
                    freshIds, calls, faults >>

-----------------------------------------------------------------------------
(* Groups *)

\* _get_group(targetName): the cached id (None included), else a lookup by
\* name; every answer other than 200 is cached as None.
_get_group(dict, held, name, r) ==
    IF Has(dict, name)
    THEN [val |-> Get(dict, name), dict |-> dict, calls |-> <<>>,
          exc |-> FALSE, used |-> FALSE]
    ELSE LET st == IF r = OK THEN HealthyGet(held, name) ELSE r
             c  == Call("GET", "group", name, None, None, <<>>, st)
         IN  IF r = EXC
             THEN [val |-> None, dict |-> dict, calls |-> <<c>>,
                   exc |-> TRUE, used |-> TRUE]
             ELSE IF st # 200
             THEN [val |-> None, dict |-> Put(dict, name, None), calls |-> <<c>>,
                   exc |-> FALSE, used |-> TRUE]
             ELSE [val |-> held[name], dict |-> Put(dict, name, held[name]),
                   calls |-> <<c>>, exc |-> FALSE, used |-> TRUE]

\* The target gives every Group it creates a Shift of the default name
WithDefaultShift(shifts, st, group_id) ==
    IF st = 201 THEN shifts \cup {<<group_id, DefaultShiftName>>} ELSE shifts

\* _add_group(group_json) and its caller's counters (lines 890-893): r1
\* answers the lookup of the Site, rs the lookups of the supervisors, r2 the
\* create
_add_group ==
    /\ pc = "groups"
    /\ Opens("groups")
    /\ idx <= Len(GroupsFile)
    /\ LET rec == GroupsFile[idx]
       IN  \E r1 \in AllAnswers : \E rs \in [1..Len(rec.supervisors) -> AllAnswers] :
           \E r2 \in AllAnswers :
             LET g     == _get_site(_site_dict, xm.sites, rec.site, r1)
                 got   == IF g.exc THEN NoneResolved(_user_dict)
                          ELSE ResolveUsers(xm.users, rec.supervisors, rs, 1,
                                            NoneResolved(_user_dict))
                 posts == ~g.exc /\ ~got.exc
                 st    == IF r2 = OK THEN HealthyPost(xm.groups, rec.targetName, rec.id)
                          ELSE r2
                 c     == Call("POST", "group", rec.targetName, rec.id, g.val,
                               got.ids, st)
                 held  == IF st = 201 THEN PostResult(xm.groups, rec.targetName, rec.id)
                          ELSE xm.groups
                 good  == posts /\ r2 # EXC /\ st \in {200, 201}
             IN  /\ faults + Faulty(r1) + SumFaulty(rs, 1) + Faulty(r2) <= MaxFaults
                 /\ (~g.used) => r1 = OK
                 /\ \A i \in 1..Len(rs) : i \notin got.used => rs[i] = OK
                 /\ (~posts) => r2 = OK
                 /\ faults' = faults + Faulty(r1) + SumFaulty(rs, 1) + Faulty(r2)
                 /\ _site_dict' = g.dict
                 /\ _user_dict' = got.dict
                 /\ calls' = calls \o By("groups", rec.targetName,
                                         g.calls \o got.calls
                                         \o (IF posts THEN <<c>> ELSE <<>>))
                 /\ counts' = [counts EXCEPT !.lines = @ + 1,
                                  !.ok  = IF good /\ st = 201 THEN @ + 1 ELSE @,
                                  !.upd = IF good /\ st = 200 THEN @ + 1 ELSE @]
                 /\ IF ~posts
                    THEN /\ Raise("RequestException", IF g.exc THEN 164 ELSE 329)
                         /\ UNCHANGED << idx, _group_dict, xm >>
                    ELSE /\ idx' = idx + 1
                         /\ UNCHANGED << pc, error >>
                         /\ IF good
                            THEN /\ xm' = [xm EXCEPT !.groups = held,
                                              !.shifts = WithDefaultShift(@, st,
                                                             held[rec.targetName])]
                                 /\ _group_dict' = Put(_group_dict, rec.targetName,
                                                       held[rec.targetName])
                            ELSE UNCHANGED << _group_dict, xm >>
    /\ UNCHANGED << objects_to_process, missing, groups_file, sub, cur, _supervisor_dict, user_dict,
                    freshIds, reports >>

\* _process_groups, lines 895-899: the summary line, then the Shifts when
\* they were asked for
_process_groups_end ==
    /\ pc = "groups"
    /\ Opens("groups")
    /\ idx > Len(GroupsFile)
    /\ reports' = Append(reports, [stage |-> "Groups", ok |-> counts.ok + counts.upd,
                                   of |-> counts.lines])
    /\ counts' = NoCounts
    /\ idx' = 1
    /\ pc' = IF include_shifts THEN "shifts" ELSE AfterGroups
    /\ UNCHANGED << objects_to_process, missing, groups_file, sub, cur, _site_dict, _user_dict,
                    _supervisor_dict, _group_dict, user_dict, error, xm,
                    freshIds, calls, faults >>

-----------------------------------------------------------------------------
(* Shifts and Members *)

\* The statuses the retrying session retries on (line 629)
Transient == {501, 502, 503, 504}

\* The answers the target may give to the create of a Shift: those of any
\* request, 503 as one more fault, and 501 (the delete has not propagated)
\* as long as "more" allows one more transient answer
ShiftAnswers(used, more) ==
    Answers(used)
    \cup (IF more /\ faults + used < MaxFaults THEN {503} ELSE {})
    \cup (IF more THEN {501} ELSE {})

\* 501 is not counted as a fault
FaultyShift(r) == IF r \in {OK, 501} THEN 0 ELSE 1

\* ShiftsLoopEnded for a first loop that handles one Group only
ShiftsLoopEndedEarly(i) == i > 1

\* _process_shifts, lines 825-839: the first loop ends, and the second one
\* (line 843) starts, when every record of the Groups file was read
ShiftsLoopEnded(i) == i > Len(GroupsFile)

\* _process_shifts(), first loop: one record of the Groups file; the owning
\* Group is looked up by name and its Shifts are handed to _add_shifts
_process_shifts ==
    /\ pc = "shifts"
    /\ Opens("shifts")
    /\ ~ShiftsLoopEnded(idx)
    /\ \E r \in Answers(0) :
         LET rec == GroupsFile[idx]
             g   == _get_group(_group_dict, xm.groups, rec.targetName, r)
         IN  /\ (~g.used) => r = OK
             /\ faults' = faults + Faulty(r)
             /\ calls' = calls \o By("shifts", rec.targetName, g.calls)
             /\ _group_dict' = g.dict
             /\ counts' = [counts EXCEPT !.lines = @ + 1, !.max = @ + Len(rec.shifts)]
             /\ IF g.exc
                THEN Raise("RequestException", 489) /\ UNCHANGED << sub, cur >>
                ELSE /\ cur' = [NoCur EXCEPT !.group_id = g.val,
                                             !.target_name = rec.targetName,
                                             !.shifts = rec.shifts]
                     /\ sub' = 1
                     /\ pc' = "add_shifts"
                     /\ UNCHANGED error
    /\ UNCHANGED << objects_to_process, missing, groups_file, idx, _site_dict, _user_dict,
                    _supervisor_dict, user_dict, xm, freshIds, reports >>

HealthyDeleteShift(group_id, name) ==
    IF <<group_id, name>> \in xm.shifts THEN 200 ELSE 404

HealthyPostShift(shifts, group_id, name) ==
    IF <<group_id, name>> \in shifts THEN 409 ELSE 201

\* UsesResilientSession with the test of line 671 always false
NeverResilient(deleted_shift) == FALSE

\* UsesResilientSession with the test of line 671 always true
AlwaysResilient(deleted_shift) == TRUE

\* The session _add_shifts sends the create through (lines 671-681): the
\* retrying one after a delete that succeeded, plain requests otherwise
UsesResilientSession(deleted_shift) == deleted_shift

\* Backoff that sleeps the same 3 s before every retry
BackoffConstant(counter) == 3

\* The sleep before the retry that follows attempt number counter (line 630)
Backoff(counter) == 3 * counter

\* GivesUp for a loop that ends after its first retry
GivesUpAfterOneRetry(counter) == counter > 1

\* ResilientSession.request returns a transient answer to its caller after
\* counter attempts: never, the loop is "while True" (line 624)
GivesUp(counter) == FALSE

\* _add_shifts, lines 686-697: what the answer to the create makes of the
\* Shift; the loop goes on with the next Shift in every case
ShiftAnswered(r, st) ==
    /\ cur' = [cur EXCEPT !.shift_count = IF r # EXC /\ st \in {200, 201}
                                          THEN @ + 1 ELSE @,
                          !.had_new_default_shift =
                              @ \/ cur.shifts[sub].name = DefaultShiftName,
                          !.counter = 0]
    /\ sub' = sub + 1
    /\ pc' = "add_shifts"

\* CreateIssued for a create that is sent only after a delete that succeeded
CreateOnlyAfterDelete(deleted_shift) == deleted_shift

\* _add_shifts, lines 670-681: both branches of "if deleted_shift" send the
\* create, so it is sent whatever _del_shift returned
CreateIssued(deleted_shift) == TRUE

\* _add_shifts(group_id, target_name, shifts): one Shift of the list, its
\* delete (rd) and the first answer (rp) to its create
_add_shifts ==
    /\ pc = "add_shifts"
    /\ sub <= Len(cur.shifts)
    /\ IF cur.group_id = None
       THEN \* _del_shift, line 596: '...' + group_id of None
            /\ Raise("TypeError", 596)
            /\ UNCHANGED << sub, cur, xm, calls, faults >>
       ELSE \E rd \in Answers(0) : \E rp \in ShiftAnswers(Faulty(rd), TRUE) :
              LET name    == cur.shifts[sub].name
                  std     == IF rd = OK THEN HealthyDeleteShift(cur.group_id, name) ELSE rd
                  deleted == rd # EXC /\ std = 200
                  held    == IF deleted THEN xm.shifts \ {<<cur.group_id, name>>}
                             ELSE xm.shifts
                  stp     == IF rp = OK THEN HealthyPostShift(held, cur.group_id, name)
                             ELSE rp
                  cd      == Call("DELETE", "shift", name, cur.group_id, None, <<>>, std)
                  cp      == Call("POST", "shift", name, cur.group_id, None, <<>>, stp)
              IN  /\ (~CreateIssued(deleted)) => rp = OK
                  /\ faults' = faults + Faulty(rd) + FaultyShift(rp)
                  /\ calls' = calls \o By("shifts", cur.target_name,
                                          IF CreateIssued(deleted) THEN <<cd, cp>>
                                          ELSE <<cd>>)
                  /\ xm' = [xm EXCEPT !.shifts = IF CreateIssued(deleted) /\ stp = 201
                                                 THEN held \cup {<<cur.group_id, name>>}
                                                 ELSE held]
                  /\ IF ~CreateIssued(deleted)
                     THEN ShiftAnswered(EXC, None)
                     ELSE IF UsesResilientSession(deleted) /\ stp \in Transient
                     THEN /\ cur' = [cur EXCEPT !.counter = 1, !.delay = Backoff(1)]
                          /\ pc' = "retry"
                          /\ UNCHANGED sub
                     ELSE ShiftAnswered(rp, stp)
                  /\ UNCHANGED error
    /\ UNCHANGED << objects_to_process, missing, groups_file, idx, _site_dict, _user_dict,
                    _supervisor_dict, _group_dict, user_dict, counts, freshIds,
                    reports >>

\* ResilientSession.request, one more turn of its loop after the sleep: the
\* request is sent again; a transient answer sleeps 3 * counter and loops
ResilientSession_request ==
    /\ pc = "retry"
    /\ \E rp \in ShiftAnswers(0, cur.counter < MaxRetry) :
         LET name == cur.shifts[sub].name
             stp  == IF rp = OK THEN HealthyPostShift(xm.shifts, cur.group_id, name)
                     ELSE rp
         IN  /\ faults' = faults + FaultyShift(rp)
             /\ calls' = calls \o By("shifts", cur.target_name,
                                     <<Call("POST", "shift", name, cur.group_id, None,
                                            <<>>, stp)>>)
             /\ xm' = [xm EXCEPT !.shifts = IF stp = 201
                                            THEN @ \cup {<<cur.group_id, name>>} ELSE @]
             /\ IF stp \in Transient /\ ~GivesUp(cur.counter + 1)
                THEN /\ cur' = [cur EXCEPT !.counter = @ + 1,
                                           !.delay = Backoff(cur.counter + 1)]
                     /\ UNCHANGED << pc, sub >>
                ELSE ShiftAnswered(rp, stp)
    /\ UNCHANGED << objects_to_process, missing, groups_file, idx, _site_dict, _user_dict,
                    _supervisor_dict, _group_dict, user_dict, counts, error,
                    freshIds, reports >>

\* num_shifts_add for a line 838 that counts the Group, not its Shifts
num_shifts_add_one(shift_count) == 1

\* _process_shifts, line 838: "num_shifts += _add_shifts(...)", the number
\* of Shifts _add_shifts counted (line 697) and returned (line 711)
num_shifts_add(shift_count) == shift_count

\* RemovesDefaultShift for a line 702 that does not test the flag
RemovesDefaultShiftAlways(had_new_default_shift) == TRUE

\* _add_shifts, line 702: "if not had_new_default_shift"
RemovesDefaultShift(had_new_default_shift) == ~had_new_default_shift

\* _add_shifts, lines 700-711, and its caller's line 838: the default Shift
\* the source did not have is looked up (rg) and deleted (rd)
_add_shifts_end ==
    /\ pc = "add_shifts"
    /\ sub > Len(cur.shifts)
    /\ IF ~RemovesDefaultShift(cur.had_new_default_shift)
       THEN /\ counts' = [counts EXCEPT !.ok = @ + num_shifts_add(cur.shift_count)]
            /\ idx' = idx + 1
            /\ pc' = "shifts"
            /\ cur' = NoCur
            /\ UNCHANGED << error, xm, calls, faults >>
       ELSE IF cur.group_id = None
       THEN \* _get_shift, line 516: '...' + group_id of None
            /\ Raise("TypeError", 516)
            /\ UNCHANGED << idx, cur, counts, xm, calls, faults >>
       ELSE \E rg \in Answers(0) : \E rd \in Answers(Faulty(rg)) :
              LET stg   == IF rg = OK
                           THEN (IF <<cur.group_id, DefaultShiftName>> \in xm.shifts
                                 THEN 200 ELSE 404)
                           ELSE rg
                  found == rg # EXC /\ stg = 200
                  std   == IF rd = OK
                           THEN HealthyDeleteShift(cur.group_id, DefaultShiftName)
                           ELSE rd
                  cg    == Call("GET", "shift", DefaultShiftName, cur.group_id, None,
                                <<>>, stg)
                  cd    == Call("DELETE", "shift", DefaultShiftName, cur.group_id, None,
                                <<>>, std)
              IN  /\ (~found) => rd = OK
                  /\ faults' = faults + Faulty(rg) + Faulty(rd)
                  /\ calls' = calls \o By("shifts", cur.target_name,
                                          <<cg>> \o (IF found THEN <<cd>> ELSE <<>>))
                  /\ IF rg = EXC
                     THEN Raise("RequestException", 520) /\ UNCHANGED << idx, cur, counts, xm >>
                     ELSE /\ xm' = IF found /\ rd # EXC /\ std = 200
                                   THEN [xm EXCEPT !.shifts =
                                            @ \ {<<cur.group_id, DefaultShiftName>>}]
                                   ELSE xm
                          /\ counts' = [counts EXCEPT !.ok = @ + num_shifts_add(cur.shift_count)]
                          /\ idx' = idx + 1
                          /\ pc' = "shifts"
                          /\ cur' = NoCur
                          /\ UNCHANGED error
    /\ UNCHANGED << objects_to_process, missing, groups_file, sub, _site_dict, _user_dict,
                    _supervisor_dict, _group_dict, user_dict, freshIds, reports >>

\* _process_shifts, line 839: the summary line of the Shifts, then the Members
_process_shifts_end ==
    /\ pc = "shifts"
    /\ Opens("shifts")
    /\ ShiftsLoopEnded(idx)
    /\ reports' = Append(reports, [stage |-> "Shifts", ok |-> counts.ok,
                                   of |-> counts.max])
    /\ counts' = NoCounts
    /\ idx' = 1
    /\ pc' = "members"
    /\ UNCHANGED << objects_to_process, missing, groups_file, sub, cur, _site_dict, _user_dict,
                    _supervisor_dict, _group_dict, user_dict, error, xm,
                    freshIds, calls, faults >>

\* The Members of the Shifts of a Group in the order _add_shift_members adds them
RECURSIVE MembersOf(_, _)
MembersOf(shifts, i) ==
    IF i > Len(shifts) THEN <<>>
    ELSE [j \in 1..Len(shifts[i].members) |->
             [shift |-> shifts[i].name,
              recipientType |-> shifts[i].members[j].recipientType,
              targetName |-> shifts[i].members[j].targetName]]
         \o MembersOf(shifts, i + 1)

\* _process_shifts(), second loop: one record of the Groups file, handed to
\* _add_shift_members
_process_shift_members ==
    /\ pc = "members"
    /\ Opens("members")
    /\ idx <= Len(GroupsFile)
    /\ \E r \in Answers(0) :
         LET rec == GroupsFile[idx]
             g   == _get_group(_group_dict, xm.groups, rec.targetName, r)
         IN  /\ (~g.used) => r = OK
             /\ faults' = faults + Faulty(r)
             /\ calls' = calls \o By("members", rec.targetName, g.calls)
             /\ _group_dict' = g.dict
             /\ counts' = [counts EXCEPT !.lines = @ + 1,
                                         !.max = @ + Len(MembersOf(rec.shifts, 1))]
             /\ IF g.exc
                THEN Raise("RequestException", 489) /\ UNCHANGED << sub, cur >>
                ELSE /\ cur' = [NoCur EXCEPT !.group_id = g.val,
                                             !.target_name = rec.targetName,
                                             !.shifts = rec.shifts,
                                             !.members = MembersOf(rec.shifts, 1)]
                     /\ sub' = 1
                     /\ pc' = "add_member"
                     /\ UNCHANGED error
    /\ UNCHANGED << objects_to_process, missing, groups_file, idx, _site_dict, _user_dict,
                    _supervisor_dict, user_dict, xm, freshIds, reports >>

\* POST of a Member: its recipient must be known, its Shift must exist
HealthyPostMember(group_id, shift, recipient) ==
    IF recipient = None THEN 400
    ELSE IF <<group_id, shift>> \notin xm.shifts THEN 404
    ELSE 201

\* _add_member(group_id, group_name, shift_name, member_obj): r1 answers the
\* lookup of the recipient, r2 the add
_add_member ==
    /\ pc = "add_member"
    /\ sub <= Len(cur.members)
    /\ \E r1 \in Answers(0) : \E r2 \in Answers(Faulty(r1)) :
         LET m     == cur.members[sub]
             isg   == m.recipientType = "GROUP"
             g     == IF isg THEN _get_group(_group_dict, xm.groups, m.targetName, r1)
                      ELSE _get_user(_user_dict, xm.users, m.targetName, r1)
             posts == ~g.exc /\ cur.group_id # None
             st    == IF r2 = OK THEN HealthyPostMember(cur.group_id, m.shift, g.val)
                      ELSE r2
             c     == Call("POST", "member", m.targetName, g.val, None, <<>>, st)
         IN  /\ (~g.used) => r1 = OK
             /\ (~posts) => r2 = OK
             /\ faults' = faults + Faulty(r1) + Faulty(r2)
             /\ _group_dict' = IF isg THEN g.dict ELSE _group_dict
             /\ _user_dict' = IF isg THEN _user_dict ELSE g.dict
             /\ calls' = calls \o By("members", cur.target_name,
                                     g.calls \o (IF posts THEN <<c>> ELSE <<>>))
             /\ IF g.exc
                THEN Raise("RequestException", IF isg THEN 489 ELSE 329)
                     /\ UNCHANGED << sub, cur >>
                ELSE IF cur.group_id = None
                THEN \* line 560: '...' + group_id of None
                     Raise("TypeError", 560) /\ UNCHANGED << sub, cur >>
                ELSE /\ cur' = [cur EXCEPT !.mem_count =
                                   IF r2 # EXC /\ st \in {200, 201} THEN @ + 1 ELSE @]
                     /\ sub' = sub + 1
                     /\ UNCHANGED << pc, error >>
    /\ UNCHANGED << objects_to_process, missing, groups_file, idx, _site_dict, _supervisor_dict,
                    user_dict, counts, xm, freshIds, reports >>

\* _add_shift_members, lines 737-742, and its caller's line 864; the debug
\* line reads the local "members", which no iteration has bound when the
\* Group has no Shift
_add_shift_members_end ==
    /\ pc = "add_member"
    /\ sub > Len(cur.members)
    /\ IF Len(cur.shifts) = 0
       THEN Raise("UnboundLocalError", 738) /\ UNCHANGED << idx, cur, counts >>
       ELSE /\ counts' = [counts EXCEPT !.ok = @ + cur.mem_count]
            /\ idx' = idx + 1
            /\ cur' = NoCur
            /\ pc' = "members"
            /\ UNCHANGED error
    /\ UNCHANGED << objects_to_process, missing, groups_file, sub, _site_dict, _user_dict,
                    _supervisor_dict, _group_dict, user_dict, xm, freshIds,
                    reports, calls, faults >>

\* _process_shifts, line 865: the summary line of the Members, back in process()
_process_shift_members_end ==
    /\ pc = "members"
    /\ Opens("members")
    /\ idx > Len(GroupsFile)
    /\ reports' = Append(reports, [stage |-> "Members", ok |-> counts.ok,
                                   of |-> counts.max])
    /\ counts' = NoCounts
    /\ idx' = 1
    /\ pc' = AfterGroups
    /\ UNCHANGED << objects_to_process, missing, groups_file, sub, cur, _site_dict, _user_dict,
                    _supervisor_dict, _group_dict, user_dict, error, xm,
                    freshIds, calls, faults >>

-----------------------------------------------------------------------------
(* The runs *)

\* The lists cli.py passes to process()
Commands ==
    { {"sites"}, {"users"}, {"users", "devices"}, {"devices"}, {"groups"},
      {"groups", "shifts"}, {"shifts"},
      {"sites", "users", "devices", "groups", "shifts"} }

Held(file, fresh) ==
    LET names == {file[i].name : i \in 1..Len(file)}
    IN  [n \in names |->
           LET r == file[CHOOSE i \in 1..Len(file) : file[i].name = n]
           IN  IF fresh THEN NewId(r.id) ELSE r.id]

HeldByTargetName(file, fresh) ==
    LET names == {file[i].targetName : i \in 1..Len(file)}
    IN  [n \in names |->
           LET r == file[CHOOSE i \in 1..Len(file) : file[i].targetName = n]
           IN  IF fresh THEN NewId(r.id) ELSE r.id]

HeldDevices(fresh) ==
    UNION { { << (IF fresh THEN NewId(UsersFile[i].id) ELSE UsersFile[i].id),
                 UsersFile[i].devices[j] >> : j \in 1..Len(UsersFile[i].devices) }
            : i \in 1..Len(UsersFile) }

HeldShifts(fresh) ==
    UNION { { << (IF fresh THEN NewId(GroupsFile[i].id) ELSE GroupsFile[i].id),
                 GroupsFile[i].shifts[j].name >> : j \in 1..Len(GroupsFile[i].shifts) }
            : i \in 1..Len(GroupsFile) }

\* The files a run opens
FilesRead(objects) ==
    {FileOf(o) : o \in objects}

\* A target that holds none of the captured data
EmptyTarget == [restored |-> FALSE, sites |-> <<>>, users |-> <<>>, devices |-> {},
                groups |-> <<>>, shifts |-> {}]

\* A target the files were restored into before: it holds every Site, User,
\* Device, Group and Shift of the files
FullTarget(fresh) ==
    [restored |-> TRUE,
     sites |-> Held(SitesFile, fresh),
     users |-> HeldByTargetName(UsersFile, fresh),
     devices |-> HeldDevices(fresh),
     groups |-> HeldByTargetName(GroupsFile, fresh),
     shifts |-> HeldShifts(fresh)]

Init ==
    /\ objects_to_process \in Commands
    /\ missing \in {{}} \cup {{f} : f \in FilesRead(objects_to_process)}
    /\ groups_file \in
          IF objects_to_process \cap {"groups", "shifts"} # {}
          THEN {GroupsFileWithShifts, GroupsFileNoShifts}
          ELSE {GroupsFileWithShifts}
    /\ pc = "process"
    /\ idx = 1
    /\ sub = 1
    /\ cur = NoCur
    /\ _site_dict = <<>>
    /\ _user_dict = <<>>
    /\ _supervisor_dict = <<>>
    /\ _group_dict = <<>>
    /\ user_dict = <<>>
    /\ counts = NoCounts
    /\ error = NoError
    /\ freshIds \in BOOLEAN
    /\ xm \in {EmptyTarget, FullTarget(freshIds)}
    /\ reports = <<>>
    /\ calls = <<>>
    /\ faults = 0

Next ==
    \/ process
    \/ open_raises
    \/ _process_sites
    \/ _process_sites_end
    \/ _add_user
    \/ _add_devices
    \/ _add_devices_end
    \/ _add_user_return
    \/ _process_users_end
    \/ _add_user_supervisors
    \/ _process_users_supervisors_end
    \/ _process_devices
    \/ _process_devices_end
    \/ _add_group
    \/ _process_groups_end
    \/ _process_shifts
    \/ _add_shifts
    \/ ResilientSession_request
    \/ _add_shifts_end
    \/ _process_shifts_end
    \/ _process_shift_members
    \/ _add_member
    \/ _add_shift_members_end
    \/ _process_shift_members_end

Spec == Init /\ [][Next]_vars

-----------------------------------------------------------------------------
(* Properties *)

Elems(q) == {q[i] : i \in 1..Len(q)}

Is2xx(st) == st \in {200, 201}

LastCall == calls[Len(calls)]

Reported(stage) == \E i \in 1..Len(reports) : reports[i].stage = stage

\* The create request of a User (its payload carries the Site of the User;
\* the update of the supervisor pass carries none)
IsUserCreate(c) == c.op = "POST" /\ c.kind = "user" /\ c.stage = "users"

\* C1 (as claimed): forward-reference supervisors.  When the Users stage and
\* its supervisor pass have run, every create of a User returned 2xx and the
\* target assigned fresh identifiers, then for every User B of the file that
\* lists as supervisor a User A whose record comes after B's, both were
\* created and an update was issued for B whose supervisors hold the
\* identifier the target assigned to A.
C1_ForwardSupervisorAttached ==
    ( /\ freshIds
      /\ Reported("Supervisors")
      /\ \A k \in 1..Len(calls) : IsUserCreate(calls[k]) => Is2xx(calls[k].status) )
    => \A i \in 1..Len(UsersFile) : \A j \in 1..Len(UsersFile) :
         LET b == UsersFile[i]
             a == UsersFile[j]
         IN  ( i < j /\ a.targetName \in Elems(b.supervisors)
               /\ ~IsCompAdmin(a) /\ ~IsCompAdmin(b) )
             => /\ \E k \in 1..Len(calls) :
                     IsUserCreate(calls[k]) /\ calls[k].name = a.targetName
                /\ \E k \in 1..Len(calls) :
                     IsUserCreate(calls[k]) /\ calls[k].name = b.targetName
                /\ \E k \in 1..Len(calls) :
                     /\ calls[k].stage = "supervisors"
                     /\ calls[k].op = "POST"
                     /\ calls[k].name = b.targetName
                     /\ xm.users[a.targetName] \in Elems(calls[k].sups)

\* The first request _add_site issues for a record
IsFirstSiteCreate(k) ==
    /\ calls[k].stage = "sites"
    /\ calls[k].op = "POST"
    /\ (k = 1 \/ calls[k - 1].stage # "sites" \/ calls[k - 1].rec # calls[k].rec)

IsSiteLookup(k, name) ==
    /\ k <= Len(calls)
    /\ calls[k].stage = "sites" /\ calls[k].op = "GET" /\ calls[k].name = name

IsSiteCreate(k, name, id) ==
    /\ k <= Len(calls)
    /\ calls[k].stage = "sites" /\ calls[k].op = "POST"
    /\ calls[k].name = name /\ calls[k].ref = id

\* The Sites a target holds after the Sites file was restored into it
SitesOfFile == Held(SitesFile, freshIds)

IsLookup(c) == c.op = "GET" /\ c.kind \in {"site", "user", "group"}

\* C3 (as claimed): once a lookup by name of a Site, User or Group was
\* answered found (200) or not found (404), no second lookup of that name is
\* issued in the run.
C3_NoSecondLookup ==
    \A i \in 1..Len(calls) : \A j \in 1..Len(calls) :
        ( /\ i < j
          /\ IsLookup(calls[i]) /\ calls[i].status \in {200, 404}
          /\ IsLookup(calls[j]) )
        => ~(calls[j].kind = calls[i].kind /\ calls[j].name = calls[i].name)

\* The step ends on a create request that failed (non-2xx or exception)
EndsOnFailedCreate ==
    /\ Len(calls') > Len(calls)
    /\ calls'[Len(calls')].op = "POST"
    /\ ~Is2xx(calls'[Len(calls')].status)

\* C4 (as claimed): in every stage, a create that ends in a non-2xx answer or
\* in a transport exception fails that record only; it does not end the run.
C4_CreateFailureIsLocal == [][EndsOnFailedCreate => pc' # "crashed"]_vars

\* The step is the delete and the first create of a Shift
DeleteThenCreate ==
    /\ pc = "add_shifts"
    /\ Len(calls') = Len(calls) + 2
    /\ calls'[Len(calls) + 1].op = "DELETE"
    /\ calls'[Len(calls) + 2].op = "POST"

DeleteSucceeded == calls'[Len(calls) + 1].status = 200

CreateAnswered(st) == calls'[Len(calls) + 2].status = st

\* The Shift in progress is left for the next one, uncounted, not retried
ShiftSkipped ==
    /\ pc' = "add_shifts"
    /\ sub' = sub + 1
    /\ cur'.shift_count = cur.shift_count

\* The create of the Shift in progress is with the retrying session, which
\* sleeps 3 s times the attempt and sends it again
ShiftRetried ==
    /\ pc' = "retry"
    /\ sub' = sub
    /\ cur'.counter = 1
    /\ cur'.delay = 3

SiteUnresolvedFor(u) ==
    \E k \in 1..Len(calls) :
        /\ calls[k].stage = "users" /\ calls[k].rec = u
        /\ calls[k].op = "GET" /\ calls[k].kind = "site"
        /\ calls[k].status # 200

UserNames == {UsersFile[i].targetName : i \in 1..Len(UsersFile)}

\* C7: in a Users stage run with devices requested, no Device create is
\* issued for a User whose Site did not resolve.
C7_NoDevicesWithoutSite ==
    ("users" \in objects_to_process /\ "devices" \in objects_to_process)
    => \A u \in UserNames :
         SiteUnresolvedFor(u)
         => ~\E k \in 1..Len(calls) : calls[k].kind = "device" /\ calls[k].rec = u

\* C7 witness: with devices requested, the Site of a User that has Devices
\* did not resolve and the Users stage is over for that User
C7_Witness ==
    /\ "users" \in objects_to_process /\ "devices" \in objects_to_process
    /\ \E i \in 1..Len(UsersFile) :
         /\ Len(UsersFile[i].devices) > 0
         /\ SiteUnresolvedFor(UsersFile[i].targetName)
    /\ pc # "users"

\* The step is the one of _add_user in which the lookup of the Site of the
\* record is answered, but not with 200
SiteLookupFails ==
    /\ pc = "users"
    /\ Len(calls') > Len(calls)
    /\ calls'[Len(calls')].op = "GET"
    /\ calls'[Len(calls')].kind = "site"
    /\ calls'[Len(calls')].status \notin {200, EXC}

\* C8 (as claimed): when the Site of a User record does not resolve, the
\* record is failed without a create call and the Users stage goes on with
\* the next record.
C8_UnresolvedSiteFailsRecordOnly ==
    [][SiteLookupFails => (pc' = "users" /\ idx' = idx + 1)]_vars

\* C9 (as claimed): in the Shifts stage, when the owning Group did not
\* resolve, no request is issued for its Shifts and the stage goes on.
C9_UnresolvedGroupSkipsShifts ==
    [][(pc = "add_shifts" /\ cur.group_id = None)
          => (pc' # "crashed" /\ calls' = calls)]_vars

\* Every name d maps to an identifier is mapped to the same one by e
KeepsIds(d, e) ==
    \A i \in 1..Len(d) :
        d[i].v # None => (Has(e, d[i].k) /\ Get(e, d[i].k) = d[i].v)

\* C10 (as claimed): the caches are append-only: no step changes or removes
\* the identifier a name of a Site, User or Group is mapped to.
C10_CacheAppendOnly ==
    [][ /\ KeepsIds(_site_dict, _site_dict')
        /\ KeepsIds(_user_dict, _user_dict')
        /\ KeepsIds(_group_dict, _group_dict') ]_vars

\* The cache and the entities of the target of a kind
CacheOf(kind) ==
    CASE kind = "site" -> _site_dict
      [] kind = "user" -> _user_dict
      [] kind = "group" -> _group_dict

HeldOf(kind) ==
    CASE kind = "site" -> xm.sites
      [] kind = "user" -> xm.users
      [] kind = "group" -> xm.groups

\* C11 (as claimed): a lookup by name answered with an error other than not
\* found (a status that is neither 200 nor 404) writes nothing to the cache:
\* the name is not cached as unknown, so that a later resolve looks it up
\* again.
C11_LookupErrorNotCached ==
    \A k \in 1..Len(calls) :
        (IsLookup(calls[k]) /\ calls[k].status \notin {200, 404, EXC})
        => ~( /\ Has(CacheOf(calls[k].kind), calls[k].name)
              /\ Get(CacheOf(calls[k].kind), calls[k].name) = None )

\* The create request of a Site, User or Group
IsEntityCreate(c) ==
    /\ c.op = "POST"
    /\ <<c.kind, c.stage>> \in
          {<<"site", "sites">>, <<"user", "users">>, <<"group", "groups">>}

\* C12 (as claimed): after a successful create of a Site, User or Group the
\* cache maps the name of the entity to the identifier the target returned,
\* for the rest of the run.
C12_CreatedNameCached ==
    \A k \in 1..Len(calls) :
        (IsEntityCreate(calls[k]) /\ Is2xx(calls[k].status))
        => /\ Has(CacheOf(calls[k].kind), calls[k].name)
           /\ Get(CacheOf(calls[k].kind), calls[k].name)
                 = HeldOf(calls[k].kind)[calls[k].name]

\* The command 'all' of cli.py
AllKinds == {"sites", "users", "devices", "groups", "shifts"}

\* The place of the stage of a call in the order Sites, Users/Devices,
\* Groups, Shifts and Members
StageRank(stage) ==
    CASE stage = "sites" -> 1
      [] stage \in {"users", "supervisors", "devices"} -> 2
      [] stage = "groups" -> 3
      [] stage \in {"shifts", "members"} -> 4

\* The summary line a stage logs when it has finished, for the stage that
\* comes before the one of rank r in an 'all' run
FinishedBefore(r) ==
    CASE r = 1 -> TRUE
      [] r = 2 -> Reported("Sites")
      [] r = 3 -> Reported("Supervisors")
      [] r = 4 -> Reported("Groups")

\* C13: in a run of 'all', the calls are issued in the order of the stages
\* Sites, Users/Devices, Groups, Shifts and Members, and no call of a stage
\* is issued before the stage before it has finished.
C13_StagesInOrder ==
    objects_to_process = AllKinds
    => /\ \A i \in 1..(Len(calls) - 1) :
            StageRank(calls[i].stage) <= StageRank(calls[i + 1].stage)
       /\ \A i \in 1..Len(calls) : FinishedBefore(StageRank(calls[i].stage))

\* C13 witness: a run of 'all' has ended after calls of all four stages
C13_Witness ==
    /\ objects_to_process = AllKinds
    /\ pc = "done"
    /\ \A r \in 1..4 : \E i \in 1..Len(calls) : StageRank(calls[i].stage) = r

\* The Devices of the record of User u in the Users file
DevicesOf(u) ==
    UsersFile[CHOOSE i \in 1..Len(UsersFile) : UsersFile[i].targetName = u].devices

\* The Device creates issued inline for User u
InlineDeviceCalls(u) ==
    {k \in 1..Len(calls) :
        calls[k].kind = "device" /\ calls[k].stage = "users" /\ calls[k].rec = u}

\* _add_user has returned for User u
UserReturned(u) ==
    \/ pc \notin {"users", "add_devices", "user_return", "crashed"}
    \/ /\ pc = "users"
       /\ \E i \in 1..Len(UsersFile) : UsersFile[i].targetName = u /\ i < idx

\* C14: with 'users' requested, the Devices of each created User are
\* restored inline if and only if 'devices' is requested too (one create per
\* Device of the record, none otherwise) and the standalone Devices stage
\* never runs; the standalone Devices stage runs exactly when 'devices' is
\* requested without 'users', and it creates no User.
C14_UsersDevicesSelection ==
    /\ "users" \in objects_to_process
       => /\ pc # "devices"
          /\ \A k \in 1..Len(calls) : calls[k].stage # "devices"
          /\ ~Reported("Devices")
          /\ \A k \in 1..Len(calls) :
               (IsUserCreate(calls[k]) /\ Is2xx(calls[k].status)
                  /\ UserReturned(calls[k].name))
               => Cardinality(InlineDeviceCalls(calls[k].name))
                     = IF "devices" \in objects_to_process
                       THEN Len(DevicesOf(calls[k].name)) ELSE 0
          /\ "devices" \notin objects_to_process
               => \A k \in 1..Len(calls) : calls[k].kind # "device"
    /\ (\/ pc = "devices"
        \/ Reported("Devices")
        \/ \E k \in 1..Len(calls) : calls[k].stage = "devices")
       => ("devices" \in objects_to_process /\ "users" \notin objects_to_process)
    /\ ("devices" \in objects_to_process /\ "users" \notin objects_to_process
          /\ pc = "done")
       => Reported("Devices")
    /\ \A k \in 1..Len(calls) :
         calls[k].stage = "devices" => ~(calls[k].op = "POST" /\ calls[k].kind = "user")

\* C14 witness: a run of 'users' with 'devices' has created a User and its
\* Devices inline and has finished the Users stage
C14_Witness ==
    /\ "users" \in objects_to_process /\ "devices" \in objects_to_process
    /\ Reported("Users")
    /\ \E k \in 1..Len(calls) :
         /\ IsUserCreate(calls[k]) /\ Is2xx(calls[k].status)
         /\ Len(DevicesOf(calls[k].name)) > 1
         /\ Cardinality(InlineDeviceCalls(calls[k].name)) = Len(DevicesOf(calls[k].name))

\* C14 witness of the standalone stage: a run of 'devices' alone has finished
\* the Devices stage after a Device create
C14_WitnessStandalone ==
    /\ objects_to_process = {"devices"}
    /\ Reported("Devices")
    /\ \E k \in 1..Len(calls) : calls[k].stage = "devices" /\ calls[k].kind = "device"

\* The positions of the Shifts stage and of its Members phase
ShiftsStagePcs == {"shifts", "add_shifts", "retry", "members", "add_member"}

IsShiftsStageCall(c) ==
    c.stage \in {"shifts", "members"} \/ c.kind \in {"shift", "member"}

\* The Groups stage has processed every record of the Groups file
GroupsFinished ==
    \E i \in 1..Len(reports) :
        reports[i].stage = "Groups" /\ reports[i].of = Len(GroupsFile)

\* C15: with 'groups' requested, the Shifts stage runs right after all the
\* Groups of the file have been processed if and only if 'shifts' is
\* requested too (otherwise no Shift or Member call is issued); without
\* 'groups' the Shifts stage runs exactly when 'shifts' is requested, and it
\* creates no Group.
C15_GroupsShiftsSelection ==
    /\ "groups" \in objects_to_process
       => /\ (pc \in ShiftsStagePcs \/ \E k \in 1..Len(calls) : IsShiftsStageCall(calls[k]))
               => ("shifts" \in objects_to_process /\ GroupsFinished)
          /\ (GroupsFinished /\ "shifts" \in objects_to_process)
               => /\ pc \in ShiftsStagePcs \cup {"done", "crashed"}
                  /\ pc = "done" => (Reported("Shifts") /\ Reported("Members"))
          /\ (GroupsFinished /\ "shifts" \notin objects_to_process)
               => pc = "done"
    /\ (pc \in ShiftsStagePcs \/ \E k \in 1..Len(calls) : IsShiftsStageCall(calls[k]))
       => "shifts" \in objects_to_process
    /\ ("shifts" \in objects_to_process /\ "groups" \notin objects_to_process)
       => /\ ~Reported("Groups")
          /\ pc \in {"process", "done", "crashed"} \cup ShiftsStagePcs
          /\ pc = "done" => (Reported("Shifts") /\ Reported("Members"))
          /\ \A k \in 1..Len(calls) :
               ~(calls[k].op = "POST" /\ calls[k].kind = "group")

\* C15 witness: a run of 'groups' with 'shifts' has processed every Group and
\* then issued a Shift create
C15_Witness ==
    /\ objects_to_process = {"groups", "shifts"}
    /\ GroupsFinished
    /\ \E k \in 1..Len(calls) :
         calls[k].stage = "shifts" /\ calls[k].op = "POST" /\ calls[k].kind = "shift"

\* C15 witness of the standalone stage: a run of 'shifts' alone has finished
\* the Shifts and the Members
C15_WitnessStandalone ==
    /\ objects_to_process = {"shifts"}
    /\ pc = "done"
    /\ Reported("Members")
    /\ \E k \in 1..Len(calls) : calls[k].op = "POST" /\ calls[k].kind = "shift"

\* The stage at pc is about to open a capture file that is not on disk
OpensMissingFile ==
    /\ pc \in {"sites", "users", "devices", "groups", "shifts", "members"}
    /\ ~Opens(pc)

\* C16 (as claimed): a capture file that cannot be opened is fatal to the
\* stage that reads it only: the stage is aborted and process() goes on with
\* the stages after it (with the Users and the Groups stage when the Sites
\* file of an 'all' run is missing).
C16_MissingFileAbortsStageOnly ==
    [][OpensMissingFile => (pc' # "crashed" /\ pc' = AfterBlock(FileOf(pc)))]_vars

\* The step ends on a create request answered with a transient server error
TransientOnCreate ==
    /\ Len(calls') > Len(calls)
    /\ calls'[Len(calls')].op = "POST"
    /\ calls'[Len(calls')].kind \in {"site", "user", "device", "group", "shift", "member"}
    /\ calls'[Len(calls')].stage # "supervisors"
    /\ calls'[Len(calls')].status \in {502, 503, 504}

\* C17 (as claimed): a create of any kind answered 502, 503 or 504 is handed
\* to the retrying session: the record is not failed on that answer, the
\* request is sent again after the backoff.
C17_TransientCreateRetried ==
    [][TransientOnCreate => (ShiftRetried \/ (pc = "retry" /\ pc' = "retry"))]_vars

\* C17 for the kinds other than Site (whose failed create ends the run)
C17_TransientCreateRetriedAfterSites ==
    [][(TransientOnCreate /\ calls'[Len(calls')].kind # "site")
          => (ShiftRetried \/ (pc = "retry" /\ pc' = "retry"))]_vars

\* The step is one request of the retrying session: the first, sent by
\* _add_shifts after a delete that succeeded, or one more turn of the loop
SessionRequest ==
    \/ (DeleteThenCreate /\ DeleteSucceeded)
    \/ (pc = "retry" /\ Len(calls') = Len(calls) + 1)

\* The number of the attempt the step makes
Attempt == IF pc = "retry" THEN cur.counter + 1 ELSE 1

\* C18: the retrying session retries if and only if the answer is 501, 502,
\* 503 or 504; before the k-th retry it sleeps 3 * k seconds (3, 6, 9, ...);
\* any other answer goes back to the caller at once, without a sleep.
C18_LinearBackoff ==
    [][SessionRequest =>
         IF calls'[Len(calls')].status \in {501, 502, 503, 504}
         THEN /\ pc' = "retry"
              /\ sub' = sub
              /\ cur'.counter = Attempt
              /\ cur'.delay = 3 * Attempt
         ELSE /\ pc' = "add_shifts"
              /\ sub' = sub + 1
              /\ cur'.delay = cur.delay ]_vars

\* C18 witness: the session sleeps 6 s before its second retry
C18_Witness ==
    /\ pc = "retry"
    /\ cur.counter = 2
    /\ cur.delay = 6
    /\ LastCall.status \in {501, 502, 503, 504}

\* C19: the retry loop has no bound on its attempts.  A turn of the loop
\* returns to _add_shifts exactly when the answer is not 501, 502, 503 or
\* 504; on such an answer it stays in the loop, at the same Shift of the same
\* record, whatever the number of attempts made; and a run in which the
\* target stops answering with a transient status ends.
C19_RetryUnbounded ==
    /\ [][(pc = "retry" /\ Len(calls') = Len(calls) + 1) =>
            IF calls'[Len(calls')].status \in Transient
            THEN /\ pc' = "retry"
                 /\ cur'.counter = cur.counter + 1
                 /\ << idx', sub', reports' >> = << idx, sub, reports >>
            ELSE pc' = "add_shifts" /\ sub' = sub + 1 ]_vars
    /\ [][pc = "retry" => (pc' = "retry" \/ Len(calls') = Len(calls) + 1)]_vars
    /\ <>(pc \in {"done", "crashed"})

\* C19 witness: the session is in its loop after as many transient answers
\* in a row as the target gives
C19_Witness ==
    /\ pc = "retry"
    /\ cur.counter > MaxRetry

\* The runs of the standalone Shifts stage, the stage the retrying session
\* belongs to
RetryInit ==
    /\ Init
    /\ objects_to_process = {"shifts"}

RetryNext ==
    \/ process
    \/ open_raises
    \/ _process_shifts
    \/ _add_shifts
    \/ ResilientSession_request
    \/ _add_shifts_end
    \/ _process_shifts_end
    \/ _process_shift_members
    \/ _add_member
    \/ _add_shift_members_end
    \/ _process_shift_members_end

\* ... with the scheduling of a sequential program: it takes its next step
\* whenever it has one
RetrySpec == RetryInit /\ [][RetryNext]_vars /\ WF_vars(RetryNext)

\* The requests of the Sites stage for the record named n
SiteCalls(n, op) ==
    {k \in 1..Len(calls) :
        calls[k].stage = "sites" /\ calls[k].rec = n /\ calls[k].op = op}

\* C20 (as claimed): for each Site record a 409 on the create triggers
\* exactly one lookup by name and exactly one second create; no record
\* causes more than two creates; and when the second create is not answered
\* 2xx no further call is issued for the record.
C20_OneLookupOneRetry ==
    \A k \in 1..Len(calls) :
        IsFirstSiteCreate(k)
        => /\ Cardinality(SiteCalls(calls[k].rec, "POST")) <= 2
           /\ calls[k].status = 409
                => /\ SiteCalls(calls[k].rec, "GET") = {k + 1}
                   /\ SiteCalls(calls[k].rec, "POST") = {k, k + 2}
           /\ calls[k].status # 409
                => (SiteCalls(calls[k].rec, "GET") = {}
                    /\ SiteCalls(calls[k].rec, "POST") = {k})

\* The create request of a Group
IsGroupCreate(c) == c.op = "POST" /\ c.kind = "group" /\ c.stage = "groups"

\* C21 (as claimed): a 409 answered to the create of a User or of a Group
\* is followed by one lookup of that record by name and by one more create
\* of it, sent as an update; the conflict alone does not fail the record.
C21_ConflictRetriedAsUpdate ==
    \A k \in 1..Len(calls) :
        ( (IsUserCreate(calls[k]) \/ IsGroupCreate(calls[k]))
          /\ calls[k].status = 409 /\ pc \in {"done", "crashed"} )
        => /\ k + 2 <= Len(calls)
           /\ calls[k + 1].op = "GET"
           /\ calls[k + 1].kind = calls[k].kind
           /\ calls[k + 1].name = calls[k].name
           /\ calls[k + 2].op = "POST"
           /\ calls[k + 2].kind = calls[k].kind
           /\ calls[k + 2].name = calls[k].name

\* The delete or the create request of a Shift
IsShiftReplace(c) == c.kind = "shift" /\ c.op \in {"DELETE", "POST"}

\* The add request of a Member of a Shift
IsMemberAdd(c) == c.kind = "member" /\ c.op = "POST"

\* C22: Shift restoration is two-phase over the whole Groups file.  When a
\* Member add is issued, the first loop has ended and the delete and the
\* create of every Shift of every Group of the file were issued before it;
\* and no delete or create of a Shift is issued after a Member add.  (Stated
\* for the first Member add of the run, which settles it for the later ones.)
C22_ShiftsBeforeMembers ==
    LET adds == {k \in 1..Len(calls) : IsMemberAdd(calls[k])}
    IN  adds # {}
        => LET k == CHOOSE m \in adds : \A n \in adds : m <= n
           IN  /\ Reported("Shifts")
               /\ \A g \in 1..Len(GroupsFile) : \A s \in 1..Len(GroupsFile[g].shifts) :
                    \E i \in 1..(k - 1) :
                        /\ calls[i].op = "DELETE" /\ calls[i].kind = "shift"
                        /\ calls[i].rec = GroupsFile[g].targetName
                        /\ calls[i].name = GroupsFile[g].shifts[s].name
                        /\ \E j \in (i + 1)..(k - 1) :
                              /\ calls[j].op = "POST" /\ calls[j].kind = "shift"
                              /\ calls[j].rec = GroupsFile[g].targetName
                              /\ calls[j].name = GroupsFile[g].shifts[s].name
               /\ \A j \in (k + 1)..Len(calls) : ~IsShiftReplace(calls[j])

\* C22 witness: both Members of the first Group were added after the Shifts
\* of the second Group were replaced, and the run has ended
C22_Witness ==
    /\ pc = "done"
    /\ Reported("Members")
    /\ Cardinality({k \in 1..Len(calls) :
                       IsMemberAdd(calls[k]) /\ Is2xx(calls[k].status)}) = 2

\* The requests of the Shifts stage that carry the name of Shift s of the
\* Groups file record g
ShiftCalls(g, s, op) ==
    {k \in 1..Len(calls) :
        /\ calls[k].kind = "shift" /\ calls[k].op = op
        /\ calls[k].rec = GroupsFile[g].targetName
        /\ calls[k].name = GroupsFile[g].shifts[s].name}

HasDefaultNamed(g) ==
    \E s \in 1..Len(GroupsFile[g].shifts) :
        GroupsFile[g].shifts[s].name = DefaultShiftName

\* _add_shifts has returned for the Groups file record g
ShiftsProcessed(g) ==
    \/ Reported("Shifts")
    \/ (pc \in {"shifts", "add_shifts", "retry"} /\ idx > g)

\* The lookups of a Shift issued for the record g
ShiftLookups(g) ==
    {k \in 1..Len(calls) :
        /\ calls[k].kind = "shift" /\ calls[k].op = "GET"
        /\ calls[k].rec = GroupsFile[g].targetName}

\* The deletes of the default Shift issued for the record g
DefaultDeletes(g) ==
    {k \in 1..Len(calls) :
        /\ calls[k].kind = "shift" /\ calls[k].op = "DELETE"
        /\ calls[k].rec = GroupsFile[g].targetName
        /\ calls[k].name = DefaultShiftName}

ReportOf(stage) == reports[CHOOSE i \in 1..Len(reports) : reports[i].stage = stage]

\* The requests k+1 .. k+n of the log are the creates of the Devices of the
\* Users file record u, in the order of the record
DeviceCreatesFollow(k, u) ==
    /\ k + Len(DevicesOf(u)) <= Len(calls)
    /\ \A j \in 1..Len(DevicesOf(u)) :
         /\ calls[k + j].op = "POST" /\ calls[k + j].kind = "device"
         /\ calls[k + j].rec = u
         /\ calls[k + j].name = DevicesOf(u)[j]

\* C25: Device restoration is isolated per Device.  Once _add_user has
\* returned for a User that was created with its Devices, a create was
\* issued for every Device of the record, whatever the other creates of
\* Devices were answered, and the User is counted as restored: the Users
\* summary counts every User whose create was answered 2xx.
C25_DeviceFailureIsLocal ==
    /\ \A k \in 1..Len(calls) :
         ( /\ IsUserCreate(calls[k]) /\ Is2xx(calls[k].status)
           /\ "devices" \in objects_to_process
           /\ UserReturned(calls[k].name) )
         => DeviceCreatesFollow(k, calls[k].name)
    /\ Reported("Users")
         => ReportOf("Users").ok =
               Cardinality({k \in 1..Len(calls) :
                               IsUserCreate(calls[k]) /\ Is2xx(calls[k].status)})

\* C25 witness: the Users stage has ended; the create of the first Device
\* of a User failed, the create of its second Device was answered 201
C25_Witness ==
    /\ Reported("Users")
    /\ ReportOf("Users").ok = 2
    /\ \E k \in 1..Len(calls) :
         /\ IsUserCreate(calls[k]) /\ Is2xx(calls[k].status)
         /\ DeviceCreatesFollow(k, calls[k].name)
         /\ Len(DevicesOf(calls[k].name)) = 2
         /\ ~Is2xx(calls[k + 1].status)
         /\ calls[k + 2].status = 201

\* C26 (as claimed): in the standalone Devices stage the owner of the
\* Devices of a record is resolved by name, and when it does not resolve no
\* create of a Device is issued for the record: no create of a Device ever
\* carries a null owner.
C26_NoDeviceWithoutOwner ==
    \A k \in 1..Len(calls) :
        (calls[k].kind = "device" /\ calls[k].op = "POST")
        => calls[k].ref # None

\* C27 (as claimed): the recipient of a Member is resolved before the add
\* request, and no Member add request is ever issued with a null recipient.
C27_NoMemberWithoutRecipient ==
    \A k \in 1..Len(calls) : IsMemberAdd(calls[k]) => calls[k].ref # None

\* The step is _add_group, called for the record idx of the Groups file
AddGroupStep ==
    /\ pc = "groups"
    /\ idx <= Len(GroupsFile)
    /\ counts'.lines = counts.lines + 1

\* The identifiers the cache dict holds for the names, in their order; a
\* name that is not in the cache or is cached as unknown is left out
RECURSIVE ResolvedIds(_, _, _)
ResolvedIds(names, dict, i) ==
    IF i > Len(names) THEN <<>>
    ELSE (IF Has(dict, names[i]) /\ Truthy(Get(dict, names[i]))
          THEN <<Get(dict, names[i])>> ELSE <<>>)
         \o ResolvedIds(names, dict, i + 1)

\* C28 (as claimed): the references of a Group that do not resolve are
\* dropped and do not fail the record.  Every call of _add_group issues the
\* create of the Group; its supervisors are the identifiers of the captured
\* supervisors that resolved (none when none resolved), its site is the
\* identifier the Site resolved to, or is left out when it did not resolve.
C28_UnresolvedReferencesDropped ==
    [][AddGroupStep =>
         LET rec == GroupsFile[idx]
             c   == calls'[Len(calls')]
         IN  /\ pc' # "crashed"
             /\ Len(calls') > Len(calls)
             /\ IsGroupCreate(c)
             /\ c.name = rec.targetName
             /\ c.sups = ResolvedIds(rec.supervisors, _user_dict', 1)
             /\ c.site = IF Has(_site_dict', rec.site)
                         THEN Get(_site_dict', rec.site) ELSE None ]_vars

\* C28, for the calls of _add_group in which no lookup raises
C28_DroppedWhenLookupAnswers ==
    [][(AddGroupStep /\ pc' # "crashed") =>
         LET rec == GroupsFile[idx]
             c   == calls'[Len(calls')]
         IN  /\ Len(calls') > Len(calls)
             /\ IsGroupCreate(c)
             /\ c.name = rec.targetName
             /\ c.sups = ResolvedIds(rec.supervisors, _user_dict', 1)
             /\ c.site = IF Has(_site_dict', rec.site)
                         THEN Get(_site_dict', rec.site) ELSE None ]_vars

\* The requests of the Sites stage
SitesStageCalls == {k \in 1..Len(calls) : calls[k].stage = "sites"}

\* C29: for a Sites file of N records whose creates are all answered 2xx,
\* the Sites stage issues exactly N requests, the create of each record in
\* the order of the file, and no lookup; it caches the identifier of each
\* returned Site under its name and reports N restored of a possible N.
C29_SitesHappyPath ==
    ( /\ Reported("Sites")
      /\ \A k \in SitesStageCalls : calls[k].op = "POST" => Is2xx(calls[k].status) )
    => /\ SitesStageCalls = 1..Len(SitesFile)
       /\ \A i \in 1..Len(SitesFile) :
            /\ calls[i].op = "POST" /\ calls[i].kind = "site"
            /\ calls[i].name = SitesFile[i].name
            /\ calls[i].ref = SitesFile[i].id
            /\ Has(_site_dict, SitesFile[i].name)
            /\ Get(_site_dict, SitesFile[i].name) = xm.sites[SitesFile[i].name]
       /\ ReportOf("Sites") = [stage |-> "Sites", ok |-> Len(SitesFile),
                               of |-> Len(SitesFile)]

\* C29 witness: the Sites stage has ended on a target that held no Site;
\* every create was answered 201 and the target assigned its own identifiers
C29_Witness ==
    /\ Reported("Sites")
    /\ freshIds
    /\ ~xm.restored
    /\ \A i \in 1..Len(SitesFile) :
         /\ calls[i].stage = "sites" /\ calls[i].op = "POST"
         /\ calls[i].status = 201
         /\ Get(_site_dict, SitesFile[i].name) = NewId(SitesFile[i].id)

RECURSIVE SumLen(_, _)
SumLen(lens, i) == IF i > Len(lens) THEN 0 ELSE lens[i] + SumLen(lens, i + 1)

\* The stages that end with a summary of records restored, the tag and the
\* kind of their create requests, and the number of records (sub-records for
\* Devices, Shifts and Members) of their file
StageSummaries == {"Sites", "Users", "Devices", "Groups", "Shifts", "Members"}

StageSummary(stage) ==
    CASE stage = "Sites" ->
           [tag |-> "sites", kind |-> "site", records |-> Len(SitesFile)]
      [] stage = "Users" ->
           [tag |-> "users", kind |-> "user", records |-> Len(UsersFile)]
      [] stage = "Devices" ->
           [tag |-> "devices", kind |-> "device",
            records |-> SumLen([i \in 1..Len(UsersFile) |->
                                   Len(UsersFile[i].devices)], 1)]
      [] stage = "Groups" ->
           [tag |-> "groups", kind |-> "group", records |-> Len(GroupsFile)]
      [] stage = "Shifts" ->
           [tag |-> "shifts", kind |-> "shift",
            records |-> SumLen([i \in 1..Len(GroupsFile) |->
                                   Len(GroupsFile[i].shifts)], 1)]
      [] stage = "Members" ->
           [tag |-> "members", kind |-> "member",
            records |-> SumLen([i \in 1..Len(GroupsFile) |->
                                   Len(MembersOf(GroupsFile[i].shifts, 1))], 1)]

\* The last create request issued for each record of a stage
FinalCreates(s) ==
    LET creates == {k \in 1..Len(calls) :
                       /\ calls[k].stage = s.tag /\ calls[k].kind = s.kind
                       /\ calls[k].op = "POST"}
    IN  {k \in creates :
            \A l \in creates :
                (l > k) => ~(calls[l].rec = calls[k].rec /\ calls[l].name = calls[k].name)}

\* C30: the summary at the end of every stage satisfies 0 <= succeeded <=
\* attempted; attempted is the number of records of the file (of
\* sub-records for Devices, Shifts and Members) and succeeded is the number
\* of records whose last create request was answered 2xx.
C30_SummaryCounts ==
    \A i \in 1..Len(reports) :
        reports[i].stage \in StageSummaries
        => LET s == StageSummary(reports[i].stage)
           IN  /\ 0 <= reports[i].ok
               /\ reports[i].ok <= reports[i].of
               /\ reports[i].of = s.records
               /\ reports[i].ok =
                     Cardinality({k \in FinalCreates(s) : Is2xx(calls[k].status)})

\* C30 witness: the run of every stage has ended; the Users summary counts
\* two of three records and the Shifts summary one of two
C30_Witness ==
    /\ pc = "done"
    /\ Reported("Sites") /\ Reported("Groups") /\ Reported("Members")
    /\ ReportOf("Users").ok = 2 /\ ReportOf("Users").of = 3
    /\ ReportOf("Shifts").ok = 1 /\ ReportOf("Shifts").of = 2

\* The step ends on a lookup by name of a Site, User or Group that raised
LookupRaises ==
    /\ Len(calls') > Len(calls)
    /\ IsLookup(calls'[Len(calls')])
    /\ calls'[Len(calls')].status = EXC

\* C31 (as claimed): a transport failure of a lookup by name of a Site, User
\* or Group is turned into a not-found result of that resolve; it does not
\* end the stage of the record or the run.
C31_LookupExceptionIsNotFound == [][LookupRaises => pc' # "crashed"]_vars

\* C32 (as claimed): in the Members phase a Group that owns no Shift causes
\* no Member add request, and the phase goes on with the next Group of the
\* file (and so to its summary).
C32_GroupWithoutShifts ==
    [][(pc = "add_member" /\ Len(cur.shifts) = 0)
          => (pc' = "members" /\ idx' = idx + 1 /\ calls' = calls)]_vars

\* The create of a Device issued inline by the Users stage
IsInlineDeviceCreate(c) == c.op = "POST" /\ c.kind = "device" /\ c.stage = "users"

\* C33: in the Users stage with devices requested, the create of a Device is
\* issued only after the create of its User was answered 2xx, and its owner
\* is the identifier the target returned for that User in this run; on a
\* target that assigns its own identifiers it is never the identifier of the
\* capture file.
C33_InlineDeviceOwner ==
    \A k \in 1..Len(calls) :
        IsInlineDeviceCreate(calls[k])
        => /\ "devices" \in objects_to_process
           /\ \E j \in 1..(k - 1) :
                /\ IsUserCreate(calls[j]) /\ calls[j].name = calls[k].rec
                /\ Is2xx(calls[j].status)
                /\ freshIds => calls[k].ref # calls[j].ref
           /\ calls[k].rec \in DOMAIN xm.users
           /\ calls[k].ref = xm.users[calls[k].rec]

\* C33 witness: a Device was created inline for a User the target gave an
\* identifier of its own
C33_Witness ==
    \E k \in 1..Len(calls) :
        /\ IsInlineDeviceCreate(calls[k])
        /\ calls[k].status = 201
        /\ freshIds
        /\ calls[k].ref = NewId(UsersFile[1].id)
        /\ calls[k].rec = UsersFile[1].targetName

\* The step is _add_user_supervisors, called for the entry idx of user_dict
SupervisorStep ==
    /\ pc = "supervisors"
    /\ idx <= Len(user_dict)

\* The supervisors the Users file has for the User named u
CapturedSupervisors(u) ==
    UsersFile[CHOOSE i \in 1..Len(UsersFile) : UsersFile[i].targetName = u].supervisors

\* The update requests the step issues
UpdatesIssued ==
    {k \in (Len(calls) + 1)..Len(calls') :
        calls'[k].op = "POST" /\ calls'[k].kind = "user"}

\* The update requests of the supervisor pass for the User named u
SupervisorUpdates(u) ==
    {k \in 1..Len(calls) :
        /\ calls[k].stage = "supervisors" /\ calls[k].op = "POST"
        /\ calls[k].name = u}

\* C34 (as claimed): the supervisor pass issues at most one update per User
\* of the cache; the update is issued exactly when at least one captured
\* supervisor of the User resolves, and its supervisors are exactly the
\* identifiers of those that resolved: a supervisor that does not resolve is
\* left out and does not make the update fail or be skipped.
C34_SupervisorUpdate ==
    /\ [](\A u \in UserNames : Cardinality(SupervisorUpdates(u)) <= 1)
    /\ [][SupervisorStep =>
            LET u        == user_dict[idx].k
                resolved == ResolvedIds(CapturedSupervisors(u), _user_dict', 1)
            IN  /\ Cardinality(UpdatesIssued) <= 1
                /\ \A k \in UpdatesIssued :
                      /\ calls'[k].name = u
                      /\ resolved # <<>>
                      /\ calls'[k].sups = resolved
                /\ resolved # <<>> => UpdatesIssued # {} ]_vars

\* C34, for the calls of _add_user_supervisors in which no lookup raises and
\* the pending supervisors of the User are found under its identifier
C34_UpdateWhenLookupAnswers ==
    /\ [](\A u \in UserNames : Cardinality(SupervisorUpdates(u)) <= 1)
    /\ [][SupervisorStep =>
            LET u        == user_dict[idx].k
                resolved == ResolvedIds(CapturedSupervisors(u), _user_dict', 1)
            IN  /\ Cardinality(UpdatesIssued) <= 1
                /\ \A k \in UpdatesIssued :
                      /\ calls'[k].name = u
                      /\ resolved # <<>>
                      /\ calls'[k].sups = resolved
                /\ ( /\ resolved # <<>>
                     /\ pc' # "crashed"
                     /\ Has(_supervisor_dict, user_dict[idx].v) )
                   => UpdatesIssued # {} ]_vars

\* The step is _add_user, called for a record with the role Company Admin
CompAdminStep ==
    /\ pc = "users"
    /\ idx <= Len(UsersFile)
    /\ IsCompAdmin(UsersFile[idx])
    /\ counts'.lines = counts.lines + 1

\* The step submits nothing: it issues no create and no Device request, adds
\* nothing to the user cache or to the pending supervisors and counts nothing
NothingSubmitted ==
    /\ \A k \in (Len(calls) + 1)..Len(calls') :
          calls'[k].op = "GET" /\ calls'[k].kind = "site"
    /\ _user_dict' = _user_dict
    /\ _supervisor_dict' = _supervisor_dict
    /\ counts'.ok = counts.ok

\* C35 (as claimed): a User record with the role Company Admin is never
\* submitted: no create and no Device request is issued for it, nothing is
\* added to the user cache or to the pending supervisors for it, it is not
\* counted as restored, and the stage goes on with the next record.
C35_CompanyAdminSkipped ==
    [][CompAdminStep =>
         /\ NothingSubmitted
         /\ pc' = "users"
         /\ idx' = idx + 1 ]_vars

\* C35, for the records whose Site resolves
C35_SkippedWhenSiteResolves ==
    [][CompAdminStep =>
         /\ NothingSubmitted
         /\ pc' # "crashed" => (pc' = "users" /\ idx' = idx + 1) ]_vars

====
